---- MODULE Spec2Model ----
(***************************************************************************)
(* Model of the monitor bot: src/bot_monitor.py (slash-command front end)  *)
(* and src/main.py (prefix-command front end).  Both programs share the    *)
(* same MonitoredBotClient and the same MonitorBot.setup_hook; they differ *)
(* in the request handlers, which are modelled side by side over the one   *)
(* registry.                                                               *)
(*                                                                         *)
(* Strings are sequences of one-character strings, so that str.lower() is  *)
(* computed character by character.  An environment variable is a record   *)
(* [set, val]: os.getenv gives None when set is FALSE.                     *)
(***************************************************************************)
EXTENDS Integers, Sequences, FiniteSets, TLC

\* ------------------------------------------------------------------ bounds
\* Number of BOT_TOKEN_i / BOT_NAME_i slots of the environment in Spec.
MaxBots == 2
\* Number of slots of the environment in SpecLoad (the config loader alone).
MaxLoadEnv == 5
\* Number of slots of the environment in SpecServing (the slash handlers).
MaxServingBots == 1

\* ----------------------------------------------------------- value domains
Unset == [set |-> FALSE, val |-> <<>>]
EnvStr(s) == [set |-> TRUE, val |-> s]

NameAb == <<"A", "b">>
Nameab == <<"a", "b">>
NameBa == <<"B", "a">>
NameAB == <<"A", "B">>
NameBb == <<"B", "b">>
Tok == <<"t">>

\* Names a BOT_NAME_i may hold, and names a /monitor request may ask for.
ConfigNames == {NameAb, Nameab, NameBa}
RequestNames == {NameAb, NameAB, NameBb}

\* Values of MONITOR_CHANNEL_ID: absent, non-numeric, numeric.
ChannelEnvValues == {Unset, EnvStr(<<"x">>), EnvStr(<<"4", "2">>)}
\* Channels a request may come from.
RequestChannels == {42, 7}

\* Guild lists the gateway may deliver, and heartbeat round trips (in
\* microseconds) it may measure.
GuildLists == {<<>>, <<"G1", "G2">>}
LatencySamples == {42170}
LatNaN == -1
LatInf == -2

NoUser == "None"
\* client.activity is None: no activity was ever set.
NoActivity == [type |-> "none", name |-> <<>>, url |-> <<>>]
UserOf(c) == "user"

\* --------------------------------------------------------------- variables
VARIABLES
    env,                    \* BOT_TOKEN_i / BOT_NAME_i, i -> [token, name]
    envChannel,             \* MONITOR_CHANNEL_ID
    pc,                     \* position of the monitor bot's main flow
    i,                      \* loader index of setup_hook
    monitored_bots_config,  \* list of {name, token}
    monitored_bot_clients,  \* dict name -> client, as ordered <<key, client>> items
    target_channel_id,
    nextBot,                \* index of the for loop of setup_hook
    clients,                \* client id -> MonitoredBotClient attributes
    phase,                  \* client id -> position of its start() task
    starts,                 \* client id -> number of start() calls
    interaction             \* the request being handled, or the last one handled

vars == <<env, envChannel, pc, i, monitored_bots_config, monitored_bot_clients,
          target_channel_id, nextBot, clients, phase, starts, interaction>>

configVars == <<env, envChannel, monitored_bots_config, target_channel_id, i>>
sessionVars == <<clients, phase, starts>>
requestVars == <<interaction>>

\* ---------------------------------------------------------------- helpers
\* str.lower() on the alphabet of the model.
LowerChar(ch) ==
    CASE ch = "A" -> "a"
      [] ch = "B" -> "b"
      [] OTHER -> ch

Lower(s) == [k \in 1..Len(s) |-> LowerChar(s[k])]

\* Python truthiness of an os.getenv result: None and "" are falsy.
Truthy(v) == v.set /\ v.val # <<>>

\* os.getenv(f"BOT_TOKEN_{k}") / os.getenv(f"BOT_NAME_{k}")
GetToken(k) == IF k \in DOMAIN env THEN env[k].token ELSE Unset
GetName(k) == IF k \in DOMAIN env THEN env[k].name ELSE Unset

Digits == {"0", "1", "2", "3", "4", "5", "6", "7", "8", "9"}
DigitVal(ch) ==
    CASE ch = "0" -> 0 [] ch = "1" -> 1 [] ch = "2" -> 2 [] ch = "3" -> 3
      [] ch = "4" -> 4 [] ch = "5" -> 5 [] ch = "6" -> 6 [] ch = "7" -> 7
      [] ch = "8" -> 8 [] ch = "9" -> 9

\* int(os.getenv("MONITOR_CHANNEL_ID")): TypeError on None, ValueError on a
\* string that is no decimal number.
IsNumeric(v) == v.set /\ v.val # <<>> /\ \A k \in 1..Len(v.val) : v.val[k] \in Digits

RECURSIVE DecimalValue(_)
DecimalValue(s) ==
    IF s = <<>> THEN 0
    ELSE 10 * DecimalValue(SubSeq(s, 1, Len(s) - 1)) + DigitVal(s[Len(s)])

\* dict: keys in insertion order; assigning an existing key keeps its place.
DictKeys(d) == [k \in 1..Len(d) |-> d[k][1]]
DictHas(d, key) == \E k \in 1..Len(d) : d[k][1] = key
DictSet(d, key, value) ==
    IF DictHas(d, key)
    THEN [k \in 1..Len(d) |-> IF d[k][1] = key THEN <<key, value>> ELSE d[k]]
    ELSE Append(d, <<key, value>>)

\* (mutant) the client is constructed with an activity.
NewClientWithActivity(token, name) ==
    [bot_token |-> token, bot_name |-> name, is_ready |-> FALSE,
     user |-> NoUser, guilds |-> <<>>, latency |-> LatNaN,
     activity |-> [type |-> "playing", name |-> <<"Chess">>, url |-> <<>>],
     status |-> "online"]

\* MonitoredBotClient.__init__, with the discord.Client attributes the
\* reports read at their values before login.
NewClient(token, name) ==
    [bot_token |-> token, bot_name |-> name, is_ready |-> FALSE,
     user |-> NoUser, guilds |-> <<>>, latency |-> LatNaN,
     activity |-> NoActivity, status |-> "online"]

Started == DOMAIN clients

\* A request: a slash interaction (kind "monitor", "monitor_all") or a
\* message seen by on_message (kind "message"), with what was sent for it.
NoInteraction == [state |-> "none", kind |-> "none", channel_id |-> 0,
                  bot_name |-> <<>>, followups |-> <<>>]

\* ------------------------------------------------------------------- Init
EnvSlots == {[token |-> Unset, name |-> Unset]}
            \cup {[token |-> EnvStr(Tok), name |-> EnvStr(n)] : n \in ConfigNames}

InitRest ==
    /\ i = 1
    /\ monitored_bots_config = <<>>
    /\ monitored_bot_clients = <<>>
    /\ target_channel_id = 0
    /\ nextBot = 1
    /\ clients = <<>>
    /\ phase = <<>>
    /\ starts = <<>>
    /\ interaction = NoInteraction

Init ==
    /\ env \in [1..MaxBots -> EnvSlots]
    /\ envChannel \in ChannelEnvValues
    /\ pc = "new"
    /\ InitRest

\* --------------------------------------------------- MonitorBot.__init__
\* (mutant) a channel id that cannot be parsed falls back to 0 and startup
\* goes on.
ConstructWithDefaultChannel ==
    /\ pc = "new"
    /\ target_channel_id' =
           IF IsNumeric(envChannel) THEN DecimalValue(envChannel.val) ELSE 0
    /\ pc' = "load"
    /\ UNCHANGED <<env, envChannel, i, monitored_bots_config, monitored_bot_clients,
                   nextBot, clients, phase, starts, interaction>>

Construct ==
    /\ pc = "new"
    /\ IF IsNumeric(envChannel)
       THEN /\ target_channel_id' = DecimalValue(envChannel.val)
            /\ pc' = "load"
       ELSE /\ pc' = "crashed"
            /\ UNCHANGED target_channel_id
    /\ UNCHANGED <<env, envChannel, i, monitored_bots_config, monitored_bot_clients,
                   nextBot, clients, phase, starts, interaction>>

\* ------------------------------------- setup_hook: the while True loader
\* (mutant) only the token decides.
LoadAcceptsTokenOnly(k) == Truthy(GetToken(k))

\* The loader's test: if token and name
LoadAccepts(k) == Truthy(GetToken(k)) /\ Truthy(GetName(k))

LoadStep ==
    /\ pc = "load"
    /\ LoadAccepts(i)
    /\ monitored_bots_config' =
           Append(monitored_bots_config,
                  [name |-> GetName(i).val, token |-> GetToken(i).val])
    /\ i' = i + 1
    /\ UNCHANGED <<env, envChannel, pc, monitored_bot_clients, target_channel_id,
                   nextBot, clients, phase, starts, interaction>>

LoadStop ==
    /\ pc = "load"
    /\ ~LoadAccepts(i)
    /\ pc' = "start"
    /\ UNCHANGED <<env, envChannel, i, monitored_bots_config, monitored_bot_clients,
                   target_channel_id, nextBot, clients, phase, starts,
                   interaction>>

\* ---------------------------------------- setup_hook: the for loop body
\* One iteration up to the await: construct the client, store it under its
\* name, create the task that runs client.start(token).
StartNext ==
    /\ pc = "start"
    /\ nextBot <= Len(monitored_bots_config)
    /\ LET bot_info == monitored_bots_config[nextBot]
       IN /\ clients' = Append(clients, NewClient(bot_info.token, bot_info.name))
          /\ monitored_bot_clients' =
                 DictSet(monitored_bot_clients, bot_info.name, nextBot)
          /\ phase' = Append(phase, "created")
          /\ starts' = Append(starts, 1)
    /\ pc' = "sleep"
    /\ UNCHANGED <<env, envChannel, i, monitored_bots_config, target_channel_id,
                   nextBot, interaction>>

\* (mutant) the loop waits for the session it has just started to become
\* ready or to fail before it goes on.
SleepDoneAfterSettled ==
    /\ pc = "sleep"
    /\ phase[nextBot] \in {"dispatched", "failed"}
    /\ nextBot' = nextBot + 1
    /\ pc' = "start"
    /\ UNCHANGED <<env, envChannel, i, monitored_bots_config, monitored_bot_clients,
                   target_channel_id, clients, phase, starts, interaction>>

\* asyncio.sleep(2) returns: next iteration.
SleepDone ==
    /\ pc = "sleep"
    /\ nextBot' = nextBot + 1
    /\ pc' = "start"
    /\ UNCHANGED <<env, envChannel, i, monitored_bots_config, monitored_bot_clients,
                   target_channel_id, clients, phase, starts, interaction>>

\* The for loop is exhausted: setup_hook returns and the monitor bot
\* connects; from here on it receives messages and interactions.
SetupDone ==
    /\ pc = "start"
    /\ nextBot > Len(monitored_bots_config)
    /\ pc' = "running"
    /\ UNCHANGED <<env, envChannel, i, monitored_bots_config, monitored_bot_clients,
                   target_channel_id, nextBot, clients, phase, starts,
                   interaction>>

\* ------------------------------------------- one session's start() task
\* A message handed to followup.send / channel.send is observable in the
\* state right after the send; the next step is its delivery (Delivered),
\* which forgets it.  Nothing reads a sent message, so an event that occurs
\* while the send is awaited is the same event occurring after the delivery.
InFlight == interaction.followups # <<>>

\* (mutant) setup_hook awaits client.start(token) instead of creating a
\* task for it: a session runs only once the sessions before it are ready.
ScheduledInTurn(c) ==
    /\ c \in DOMAIN clients /\ pc \in {"sleep", "running"} /\ ~InFlight
    /\ \A e \in 1..(c - 1) : phase[e] = "dispatched"

\* The session tasks run only while the monitor bot's own flow is suspended:
\* in the asyncio.sleep of setup_hook and once setup_hook has returned.
Scheduled(c) == c \in Started /\ pc \in {"sleep", "running"} /\ ~InFlight

\* Client.login succeeded: the library sets client.user from the token.
Login(c) ==
    /\ Scheduled(c)
    /\ phase[c] = "created"
    /\ phase' = [phase EXCEPT ![c] = "loggedin"]
    /\ clients' = [clients EXCEPT ![c].user = UserOf(c)]
    /\ UNCHANGED <<configVars, pc, monitored_bot_clients, nextBot, starts, requestVars>>

\* (mutant) a failed start() is retried: the task is created again.
StartFailsAndRetries(c) ==
    /\ Scheduled(c)
    /\ phase[c] \in {"created", "loggedin"}
    /\ phase' = [phase EXCEPT ![c] = "created"]
    /\ starts[c] < 3
    /\ starts' = [starts EXCEPT ![c] = @ + 1]
    /\ UNCHANGED <<configVars, pc, monitored_bot_clients, nextBot, clients, requestVars>>

\* start() raises (LoginFailure on a bad token, an HTTP error, a rejected
\* gateway handshake): the task ends, nothing retrieves its exception.
StartFails(c) ==
    /\ Scheduled(c)
    /\ phase[c] \in {"created", "loggedin"}
    /\ phase' = [phase EXCEPT ![c] = "failed"]
    /\ UNCHANGED <<configVars, pc, monitored_bot_clients, nextBot, clients, starts,
                   requestVars>>

\* The gateway's READY: the library fills user and guilds of a fresh
\* connection, whose heartbeat latency starts at infinity.
ParseReady(c) ==
    /\ Scheduled(c)
    /\ phase[c] = "loggedin"
    /\ \E gl \in GuildLists :
          clients' = [clients EXCEPT ![c].user = UserOf(c),
                                     ![c].guilds = gl,
                                     ![c].latency = LatInf]
    /\ phase' = [phase EXCEPT ![c] = "identified"]
    /\ UNCHANGED <<configVars, pc, monitored_bot_clients, nextBot, starts, requestVars>>

\* (mutant) the flag is set as soon as the task runs, before any login.
on_ready_at_start(c) ==
    /\ Scheduled(c)
    /\ phase[c] \in {"created", "identified"}
    /\ clients' = [clients EXCEPT ![c].is_ready = TRUE]
    /\ phase' = [phase EXCEPT ![c] = "dispatched"]
    /\ UNCHANGED <<configVars, pc, monitored_bot_clients, nextBot, starts, requestVars>>

\* MonitoredBotClient.on_ready
on_ready(c) ==
    /\ Scheduled(c)
    /\ phase[c] = "identified"
    /\ clients[c].user # NoUser          \* the print reads self.user.id
    /\ clients' = [clients EXCEPT ![c].is_ready = TRUE]
    /\ phase' = [phase EXCEPT ![c] = "dispatched"]
    /\ UNCHANGED <<configVars, pc, monitored_bot_clients, nextBot, starts, requestVars>>

Connected(c) == Scheduled(c) /\ phase[c] \in {"identified", "dispatched"}

\* (mutant) the round trip is kept in one place shared by all clients.
HeartbeatAckShared(c) ==
    /\ Connected(c)
    /\ \E l \in LatencySamples :
          /\ clients[c].latency # l
          /\ clients' = [k \in DOMAIN clients |-> [clients[k] EXCEPT !.latency = l]]
    /\ UNCHANGED <<configVars, pc, monitored_bot_clients, nextBot, phase, starts,
                   requestVars>>

\* A heartbeat is acknowledged: client.latency reads the new round trip.
HeartbeatAck(c) ==
    /\ Connected(c)
    /\ \E l \in LatencySamples :
          /\ clients[c].latency # l
          /\ clients' = [clients EXCEPT ![c].latency = l]
    /\ UNCHANGED <<configVars, pc, monitored_bot_clients, nextBot, phase, starts,
                   requestVars>>

\* (mutant) a guild event that marks the session not ready while its guild
\* list is replaced.
GuildUpdateClearsReady(c) ==
    /\ Connected(c)
    /\ \E gl \in GuildLists :
          /\ clients[c].guilds # gl
          /\ clients' = [clients EXCEPT ![c].guilds = gl, ![c].is_ready = FALSE]
    /\ UNCHANGED <<configVars, pc, monitored_bot_clients, nextBot, phase, starts,
                   requestVars>>

\* The session joins or leaves guilds: client.guilds changes.
GuildUpdate(c) ==
    /\ Connected(c)
    /\ \E gl \in GuildLists :
          /\ clients[c].guilds # gl
          /\ clients' = [clients EXCEPT ![c].guilds = gl]
    /\ UNCHANGED <<configVars, pc, monitored_bot_clients, nextBot, phase, starts,
                   requestVars>>

\* ---------------------------------------------------------- the reports
Line(tag, payload) == <<tag, payload>>

\* f"{client.latency * 1000:.2f}": latency is held in microseconds; the
\* text has the milliseconds rounded to hundredths.
FormatLatency(l) ==
    IF l = LatNaN THEN <<"nan">>
    ELSE IF l = LatInf THEN <<"inf">>
    ELSE LET h == (l + 5) \div 10
         IN <<"num", h \div 100, h % 100>>

ActivityStr(a) ==
    CASE a.type = "none" -> <<"No activity set">>
      [] a.type = "playing" -> <<"Playing: ", a.name>>
      [] a.type = "streaming" -> <<"Streaming: ", a.name, a.url>>
      [] a.type = "listening" -> <<"Listening to: ", a.name>>
      [] a.type = "watching" -> <<"Watching: ", a.name>>
      [] a.type = "custom" -> <<"Custom Status: ", a.name>>
      [] a.type = "competing" -> <<"Competing in: ", a.name>>
      [] OTHER -> <<"No activity set">>

\* client.status.name.capitalize()
Capitalize(s) ==
    CASE s = "online" -> "Online"
      [] s = "offline" -> "Offline"
      [] s = "idle" -> "Idle"
      [] s = "dnd" -> "Dnd"
      [] s = "invisible" -> "Invisible"
      [] OTHER -> s

OfflineLine == Line("Status", "Offline (Could not log in or not ready yet)")
OnlineLine == Line("Status", "Online")

\* (mutant) the report's if tests client.user alone.
ShowsStatsUserOnly(client) == client.user # NoUser

\* The condition of the report's if: client.is_ready and client.user
ShowsStats(client) == client.is_ready /\ client.user # NoUser

\* The lines main.py and bot_monitor.py both emit for a ready client.
StatsLines(client) ==
    << OnlineLine,
       Line("Servers", Len(client.guilds)),
       Line("Latency", FormatLatency(client.latency)),
       Line("Activity", ActivityStr(client.activity)),
       Line("UserStatus", Capitalize(client.status)) >>

\* (mutant) the names are joined without testing for an empty list.
ServersListLineAlwaysJoins(client) == Line("ServersList", client.guilds)

\* The servers list of the report: if client.guilds ... else ...
ServersListLine(client) ==
    IF client.guilds # <<>>
    THEN Line("ServersList", client.guilds)
    ELSE Line("ServersList", <<"Not in any servers.">>)

\* MonitorBot._generate_single_bot_report
GenerateSingleBotReport(client) ==
    <<Line("Title", client.bot_name)>> \o
    (IF ShowsStats(client)
     THEN StatsLines(client) \o <<ServersListLine(client)>>
     ELSE <<OfflineLine>>)

HeaderLines == <<Line("Header", <<>>), Line("Blank", <<>>)>>
BlankLine == Line("Blank", <<>>)

\* The for loop of _generate_full_report over monitored_bot_clients.items(),
\* from item k on, report_message being acc.
RECURSIVE FullReportFrom(_, _, _, _)
FullReportFrom(d, cl, k, acc) ==
    IF k > Len(d) THEN acc
    ELSE FullReportFrom(d, cl, k + 1,
                        acc \o GenerateSingleBotReport(cl[d[k][2]]) \o <<BlankLine>>)

\* (mutant) the loop starts at the second item.
GenerateFullReportFromSecond(d, cl) == FullReportFrom(d, cl, 2, HeaderLines)

\* MonitorBot._generate_full_report
GenerateFullReport(d, cl) == FullReportFrom(d, cl, 1, HeaderLines)

\* The loop of main.py's send_monitoring_report: the section is built in
\* place, titled by the dict key, without the servers list.
RECURSIVE MonitoringReportFrom(_, _, _, _)
MonitoringReportFrom(d, cl, k, acc) ==
    IF k > Len(d) THEN acc
    ELSE MonitoringReportFrom(d, cl, k + 1,
             acc \o <<Line("Title", d[k][1])>>
                 \o (IF ShowsStats(cl[d[k][2]])
                     THEN StatsLines(cl[d[k][2]])
                     ELSE <<OfflineLine>>)
                 \o <<BlankLine>>)

\* (mutant) the loop of send_monitoring_report skips the first entry.
MonitoringReportFromSecond(d, cl) == MonitoringReportFrom(d, cl, 2, HeaderLines)

MonitoringReport(d, cl) == MonitoringReportFrom(d, cl, 1, HeaderLines)

\* ------------------------------------------------------------- messages
Msg(type, chan, name, names, lines, eph) ==
    [type |-> type, channel |-> chan, bot_name |-> name, names |-> names,
     lines |-> lines, ephemeral |-> eph]

\* "Please use this command in the designated monitoring channel: <#id>"
RedirectMessage(target) == Msg("redirect", target, <<>>, <<>>, <<>>, TRUE)
ReportMessage(lines) == Msg("report", 0, <<>>, <<>>, lines, FALSE)
\* (mutant) the names are listed in lower case.
NotFoundMessageLowered(bot_name, d) ==
    Msg("notfound", 0, bot_name, [k \in 1..Len(d) |-> Lower(d[k][1])], <<>>, FALSE)

\* "Bot '{bot_name}' not found ... Available bots: {', '.join(keys)}"
NotFoundMessage(bot_name, d) == Msg("notfound", 0, bot_name, DictKeys(d), <<>>, FALSE)

\* ------------------------------------------ bot_monitor.py: /monitor
\* The handler up to its first await: interaction.response.defer().
SlashRequest(kind, chan, bot_name) ==
    /\ pc = "running"
    /\ interaction.state = "none"
    /\ interaction' = [state |-> "deferred", kind |-> kind, channel_id |-> chan,
                       bot_name |-> bot_name, followups |-> <<>>]
    /\ UNCHANGED <<configVars, pc, monitored_bot_clients, nextBot, sessionVars>>

\* The for loop of monitor_bot_command: index of the first item whose key
\* matches case-insensitively, 0 when none does (found_client is None).
RECURSIVE FindClientFrom(_, _, _)
FindClientFrom(d, bot_name_lower, k) ==
    IF k > Len(d) THEN 0
    ELSE IF Lower(d[k][1]) = bot_name_lower THEN d[k][2]
    ELSE FindClientFrom(d, bot_name_lower, k + 1)

FindClient(d, bot_name) == FindClientFrom(d, Lower(bot_name), 1)

\* monitor_bot_command after the defer, up to the followup.send.
MonitorBotFollowup ==
    IF interaction.channel_id # target_channel_id
    THEN RedirectMessage(target_channel_id)
    ELSE LET found_client == FindClient(monitored_bot_clients, interaction.bot_name)
         IN IF found_client # 0
            THEN ReportMessage(GenerateSingleBotReport(clients[found_client]))
            ELSE NotFoundMessage(interaction.bot_name, monitored_bot_clients)

\* (mutant) the return after the redirect is missing: the handler goes on
\* to the lookup and sends its result as well.
MonitorBotCommandFallsThrough ==
    /\ pc = "running"
    /\ interaction.state = "deferred"
    /\ interaction.kind = "monitor"
    /\ interaction' =
          [interaction EXCEPT
             !.state = "answered",
             !.followups =
                IF interaction.channel_id # target_channel_id
                THEN LET found_client ==
                             FindClient(monitored_bot_clients, interaction.bot_name)
                     IN <<RedirectMessage(target_channel_id),
                          IF found_client # 0
                          THEN ReportMessage(GenerateSingleBotReport(clients[found_client]))
                          ELSE NotFoundMessage(interaction.bot_name,
                                               monitored_bot_clients)>>
                ELSE <<MonitorBotFollowup>>]
    /\ UNCHANGED <<configVars, pc, monitored_bot_clients, nextBot, sessionVars>>

MonitorBotCommand ==
    /\ pc = "running"
    /\ interaction.state = "deferred"
    /\ interaction.kind = "monitor"
    /\ interaction' = [interaction EXCEPT !.state = "answered",
                                          !.followups = Append(@, MonitorBotFollowup)]
    /\ UNCHANGED <<configVars, pc, monitored_bot_clients, nextBot, sessionVars>>

\* ------------------------------------- bot_monitor.py: /monitor_all
\* (mutant) the channel is not checked.
MonitorAllFollowupUnchecked ==
    ReportMessage(GenerateFullReport(monitored_bot_clients, clients))

\* monitor_all_bots_command after the defer, up to the followup.send.
MonitorAllFollowup ==
    IF interaction.channel_id # target_channel_id
    THEN RedirectMessage(target_channel_id)
    ELSE ReportMessage(GenerateFullReport(monitored_bot_clients, clients))

\* (mutant) the report loop suspends after the first section, and a guild
\* event of that section's session runs before the remaining sections are
\* rendered.
MonitorAllBotsCommandSuspends ==
    /\ pc = "running"
    /\ interaction.state = "deferred"
    /\ interaction.kind = "monitor_all"
    /\ \E gl \in GuildLists :
          LET first == IF monitored_bot_clients = <<>> THEN 0
                       ELSE monitored_bot_clients[1][2]
              event == first # 0 /\ interaction.channel_id = target_channel_id
                       /\ phase[first] = "dispatched"
                       /\ clients[first].guilds # gl
              after == IF event THEN [clients EXCEPT ![first].guilds = gl]
                       ELSE clients
          IN /\ clients' = after
             /\ interaction' =
                   [interaction EXCEPT
                      !.state = "answered",
                      !.followups =
                         IF event
                         THEN <<ReportMessage(
                                  FullReportFrom(monitored_bot_clients, after, 2,
                                      FullReportFrom(SubSeq(monitored_bot_clients, 1, 1),
                                                     clients, 1, HeaderLines)))>>
                         ELSE <<MonitorAllFollowup>>]
    /\ UNCHANGED <<configVars, pc, nextBot, monitored_bot_clients, phase, starts>>

\* (mutant) the handler consumes the registry while it reports.
MonitorAllBotsCommandDrains ==
    /\ pc = "running"
    /\ interaction.state = "deferred"
    /\ interaction.kind = "monitor_all"
    /\ interaction' = [interaction EXCEPT !.state = "answered",
                                          !.followups = Append(@, MonitorAllFollowup)]
    /\ monitored_bot_clients' =
           IF interaction.channel_id = target_channel_id THEN <<>>
           ELSE monitored_bot_clients
    /\ UNCHANGED <<configVars, pc, nextBot, sessionVars>>

MonitorAllBotsCommand ==
    /\ pc = "running"
    /\ interaction.state = "deferred"
    /\ interaction.kind = "monitor_all"
    /\ interaction' = [interaction EXCEPT !.state = "answered",
                                          !.followups = Append(@, MonitorAllFollowup)]
    /\ UNCHANGED <<configVars, pc, monitored_bot_clients, nextBot, sessionVars>>

\* ----------------------------------------------- main.py: on_message
\* A message arrives: from the bot itself or not, in some channel, its
\* content being "!monitor" or not.
OnMessageSends(chan, is_command, from_self) ==
    IF ~from_self /\ chan = target_channel_id /\ is_command
    THEN <<ReportMessage(MonitoringReport(monitored_bot_clients, clients))>>
    ELSE <<>>

OnMessage(chan, is_command, from_self) ==
    /\ pc = "running"
    /\ interaction.state = "none"
    /\ interaction' = [state |-> IF from_self THEN "own" ELSE
                                 IF is_command THEN "command" ELSE "chatter",
                       kind |-> "message", channel_id |-> chan, bot_name |-> <<>>,
                       followups |-> OnMessageSends(chan, is_command, from_self)]
    /\ UNCHANGED <<configVars, pc, monitored_bot_clients, nextBot, sessionVars>>

\* The handler has returned and its message, if any, is delivered.
Delivered ==
    /\ interaction.state \notin {"none", "deferred"}
    /\ interaction' = NoInteraction
    /\ UNCHANGED <<configVars, pc, monitored_bot_clients, nextBot, sessionVars>>

\* ------------------------------------------------------ specifications
Next ==
    \/ Construct
    \/ LoadStep
    \/ LoadStop
    \/ StartNext
    \/ SleepDone
    \/ SetupDone
    \/ \E c \in DOMAIN clients : Login(c)
    \/ \E c \in DOMAIN clients : StartFails(c)
    \/ \E c \in DOMAIN clients : ParseReady(c)
    \/ \E c \in DOMAIN clients : on_ready(c)
    \/ \E c \in DOMAIN clients : HeartbeatAck(c)
    \/ \E c \in DOMAIN clients : GuildUpdate(c)
    \/ \E chan \in RequestChannels, n \in RequestNames :
          SlashRequest("monitor", chan, n)
    \/ \E chan \in RequestChannels : SlashRequest("monitor_all", chan, <<>>)
    \/ MonitorBotCommand
    \/ MonitorAllBotsCommand
    \/ \E chan \in RequestChannels, is_command \in BOOLEAN, from_self \in BOOLEAN :
          OnMessage(chan, is_command, from_self)
    \/ Delivered

Spec == Init /\ [][Next]_vars

\* Startup alone, up to the return of setup_hook and with the sessions
\* running beside it, under the scheduling asyncio gives the main flow:
\* synchronous code runs on, and asyncio.sleep(2) returns.  Nothing is
\* assumed of the sessions, whose progress depends on the network.  Requests
\* are left out: they are handled only once setup_hook has returned.
SetupStep ==
    Construct \/ LoadStep \/ LoadStop \/ StartNext \/ SleepDone \/ SetupDone

NextStartup ==
    \/ Construct
    \/ LoadStep
    \/ LoadStop
    \/ StartNext
    \/ SleepDone
    \/ SetupDone
    \/ \E c \in DOMAIN clients : Login(c)
    \/ \E c \in DOMAIN clients : StartFails(c)
    \/ \E c \in DOMAIN clients : ParseReady(c)
    \/ \E c \in DOMAIN clients : on_ready(c)
    \/ \E c \in DOMAIN clients : HeartbeatAck(c)
    \/ \E c \in DOMAIN clients : GuildUpdate(c)

SpecStartup == Init /\ [][NextStartup]_vars /\ WF_vars(SetupStep)

\* bot_monitor.py alone (the slash front end; on_message is main.py's),
\* under the scheduling asyncio gives a command handler: once
\* interaction.response.defer() has returned, the handler runs on to its
\* followup.send.  Nothing is assumed of the sessions or of the requests.
HandlerStep == MonitorBotCommand \/ MonitorAllBotsCommand

NextServing ==
    \/ Construct
    \/ LoadStep
    \/ LoadStop
    \/ StartNext
    \/ SleepDone
    \/ SetupDone
    \/ \E c \in DOMAIN clients : Login(c)
    \/ \E c \in DOMAIN clients : StartFails(c)
    \/ \E c \in DOMAIN clients : ParseReady(c)
    \/ \E c \in DOMAIN clients : on_ready(c)
    \/ \E c \in DOMAIN clients : HeartbeatAck(c)
    \/ \E c \in DOMAIN clients : GuildUpdate(c)
    \/ \E chan \in RequestChannels, n \in RequestNames :
          SlashRequest("monitor", chan, n)
    \/ \E chan \in RequestChannels : SlashRequest("monitor_all", chan, <<>>)
    \/ MonitorBotCommand
    \/ MonitorAllBotsCommand
    \/ Delivered

InitServing ==
    /\ env \in [1..MaxServingBots -> EnvSlots]
    /\ envChannel \in ChannelEnvValues
    /\ pc = "new"
    /\ InitRest

SpecServing == InitServing /\ [][NextServing]_vars /\ WF_vars(HandlerStep)

\* The config loader of setup_hook alone, over environments with gaps,
\* empty values and entries beyond the first gap.
LoadEnvSlots ==
    { [token |-> t, name |-> n] :
        t \in {Unset, EnvStr(<<>>), EnvStr(Tok)},
        n \in {Unset, EnvStr(<<>>), EnvStr(NameAb)} }
    \ { [token |-> EnvStr(<<>>), name |-> EnvStr(<<>>)],
         [token |-> Unset, name |-> EnvStr(<<>>)],
         [token |-> EnvStr(<<>>), name |-> Unset] }

InitLoad ==
    /\ env \in [1..MaxLoadEnv -> LoadEnvSlots]
    /\ envChannel = EnvStr(<<"4", "2">>)
    /\ pc = "load"
    /\ i = 1
    /\ monitored_bots_config = <<>>
    /\ monitored_bot_clients = <<>>
    /\ target_channel_id = 42
    /\ nextBot = 1
    /\ clients = <<>>
    /\ phase = <<>>
    /\ starts = <<>>
    /\ interaction = NoInteraction

NextLoad == LoadStep \/ LoadStop

SpecLoad == InitLoad /\ [][NextLoad]_vars

\* ================================================================ claims

\* ---- C1 ----------------------------------------------------------------
\* C1: readiness is monotonic: in every step, a client whose is_ready flag
\* is true still has it true afterwards.
C1_ReadyMonotonic ==
    [][\A c \in DOMAIN clients :
          clients[c].is_ready => (c \in DOMAIN clients' /\ clients'[c].is_ready)]_vars

\* A ready client that has since seen a heartbeat and a guild change, next
\* to a session whose start() failed, with a request being handled.
C1_Witness ==
    \E c, d \in DOMAIN clients :
        /\ clients[c].is_ready
        /\ clients[c].latency \in LatencySamples
        /\ clients[c].guilds # <<>>
        /\ phase[d] = "failed"
        /\ interaction.state = "answered"

C3_FailureIsTerminal ==
    /\ [](/\ \A c \in DOMAIN clients : starts[c] = 1
          /\ DOMAIN starts = DOMAIN clients
          /\ pc = "running" => Len(clients) = Len(monitored_bots_config))
    /\ [][\A c \in DOMAIN clients :
            phase[c] = "failed" =>
                /\ ~clients[c].is_ready
                /\ ~clients'[c].is_ready
                /\ phase'[c] = "failed"
                /\ starts'[c] = starts[c]]_vars

\* A failed session, after setup_hook has returned and while another
\* session is ready: later states of the failed session exist.
C3_Witness ==
    \E c, d \in DOMAIN clients :
        /\ phase[c] = "failed"
        /\ clients[c].user # NoUser
        /\ pc = "running"
        /\ clients[d].is_ready

\* ---- reading a sent report ------------------------------------------------
Answered(kind) == interaction.state = "answered" /\ interaction.kind = kind
Authorized == interaction.channel_id = target_channel_id
Followup == interaction.followups[1]

Tag(line) == line[1]
StatsTags == {"Servers", "Latency", "Activity", "UserStatus", "ServersList"}

\* Positions of the section titles of a report, and its k-th section: the
\* lines from the k-th title up to the line before the next title (or the
\* end), without the blank line that closes it.
TitlePositions(r) ==
    SelectSeq([k \in 1..Len(r) |-> k], LAMBDA k : Tag(r[k]) = "Title")

SectionEnd(r, k) ==
    LET tp == TitlePositions(r)
    IN IF k < Len(tp) THEN tp[k + 1] - 1 ELSE Len(r)

Section(r, k) == SubSeq(r, TitlePositions(r)[k], SectionEnd(r, k) - 1)

IsOfflineSection(sec, name) == sec = <<Line("Title", name), OfflineLine>>

IsFullStatsSection(sec, client) ==
    /\ Len(sec) = 7
    /\ sec[1] = Line("Title", client.bot_name)
    /\ sec[2] = OnlineLine
    /\ sec[3] = Line("Servers", Len(client.guilds))
    /\ Tag(sec[4]) = "Latency"
    /\ Tag(sec[5]) = "Activity"
    /\ Tag(sec[6]) = "UserStatus"
    /\ Tag(sec[7]) = "ServersList"

RegistryClient(k) == clients[monitored_bot_clients[k][2]]
RegistryPhase(k) == phase[monitored_bot_clients[k][2]]

\* ---- C4 ----------------------------------------------------------------
\* C4: a failed or stalled session blocks nothing.  Whatever the other
\* sessions' states, a session that is scheduled can take its next step
\* towards ready, the pacing sleep of setup_hook can return, and a deferred
\* request can be answered; and in every full report and every single
\* report the section of a session that failed or is not ready is the
\* offline one while the section of each ready session has its full stats.
C4_FailureIsIsolated ==
    /\ \A d \in DOMAIN clients :
          (pc \in {"sleep", "running"} /\ ~InFlight) =>
              /\ phase[d] = "created" => ENABLED Login(d)
              /\ phase[d] = "loggedin" => ENABLED ParseReady(d)
              /\ phase[d] = "identified" => ENABLED on_ready(d)
    /\ pc = "sleep" => ENABLED SleepDone
    /\ (interaction.state = "deferred" /\ interaction.kind = "monitor") =>
          ENABLED MonitorBotCommand
    /\ (interaction.state = "deferred" /\ interaction.kind = "monitor_all") =>
          ENABLED MonitorAllBotsCommand
    /\ (Answered("monitor_all") /\ Authorized) =>
          /\ Len(interaction.followups) = 1
          /\ Followup.type = "report"
          /\ Len(TitlePositions(Followup.lines)) = Len(monitored_bot_clients)
          /\ \A k \in 1..Len(monitored_bot_clients) :
                IF RegistryClient(k).is_ready
                THEN IsFullStatsSection(Section(Followup.lines, k), RegistryClient(k))
                ELSE IsOfflineSection(Section(Followup.lines, k),
                                      RegistryClient(k).bot_name)
    /\ (Answered("monitor") /\ Authorized /\ Followup.type = "report") =>
          \E k \in 1..Len(monitored_bot_clients) :
              /\ Lower(monitored_bot_clients[k][1]) = Lower(interaction.bot_name)
              /\ IF RegistryClient(k).is_ready
                 THEN IsFullStatsSection(Followup.lines, RegistryClient(k))
                 ELSE IsOfflineSection(Followup.lines, RegistryClient(k).bot_name)

\* A full report sent while one session has failed and another is ready.
C4_Witness ==
    /\ Answered("monitor_all") /\ Authorized
    /\ Len(monitored_bot_clients) = 2
    /\ RegistryPhase(1) = "failed"
    /\ RegistryClient(2).is_ready
    /\ IsOfflineSection(Section(Followup.lines, 1), RegistryClient(1).bot_name)
    /\ IsFullStatsSection(Section(Followup.lines, 2), RegistryClient(2))

\* ---- C5 ----------------------------------------------------------------
IsRedirect(m) ==
    /\ m.type = "redirect"
    /\ m.channel = target_channel_id
    /\ m.lines = <<>>

\* C5 as stated: every request from another channel than the authorized one,
\* through either front end, is answered with exactly the redirect message.
C5_RedirectFromEveryFrontEnd ==
    /\ (interaction.state = "answered" /\ ~Authorized) =>
          (Len(interaction.followups) = 1 /\ IsRedirect(Followup))
    /\ (interaction.state = "command" /\ ~Authorized) =>
          (Len(interaction.followups) = 1 /\ IsRedirect(Followup))

\* C5 amended: no request from another channel produces a report.  A slash
\* request (single or full) from another channel is answered with exactly
\* the redirect message naming the authorized channel, and one from the
\* authorized channel takes the report path (a report, or for /monitor the
\* lookup-miss message).  A "!monitor" message from another channel gets no
\* answer at all, and one from the authorized channel gets the report.
C5_NoReportOutsideChannel ==
    /\ (interaction.state = "answered" /\ ~Authorized) =>
          (Len(interaction.followups) = 1 /\ IsRedirect(Followup))
    /\ (Answered("monitor_all") /\ Authorized) =>
          (Len(interaction.followups) = 1 /\ Followup.type = "report")
    /\ (Answered("monitor") /\ Authorized) =>
          (Len(interaction.followups) = 1 /\ Followup.type \in {"report", "notfound"})
    /\ (interaction.kind = "message" /\ ~Authorized) => interaction.followups = <<>>
    /\ (interaction.state = "command" /\ Authorized) =>
          (Len(interaction.followups) = 1 /\ Followup.type = "report")

\* A /monitor_all from another channel, answered while a session is ready.
C5_Witness ==
    /\ Answered("monitor_all")
    /\ ~Authorized
    /\ IsRedirect(Followup)
    /\ \E c \in DOMAIN clients : clients[c].is_ready

\* ---- C6 ----------------------------------------------------------------
ConfigNamesDistinct ==
    \A j, k \in 1..Len(monitored_bots_config) :
        j # k => monitored_bots_config[j].name # monitored_bots_config[k].name

\* C6: lookup is case-insensitive: when the configured names are pairwise
\* different strings, a /monitor request from the authorized channel for a
\* name r is answered, for every configured name n that equals r ignoring
\* case, with the report of the client configured as n.
C6_LookupIgnoresCase ==
    (Answered("monitor") /\ Authorized /\ ConfigNamesDistinct) =>
        \A c \in 1..Len(monitored_bots_config) :
            Lower(monitored_bots_config[c].name) = Lower(interaction.bot_name) =>
                /\ Len(interaction.followups) = 1
                /\ Followup.type = "report"
                /\ Followup.lines = GenerateSingleBotReport(clients[c])

\* ---- C7 ----------------------------------------------------------------
\* The configured names in the order of their first occurrence.
ConfigNameAt(k) == monitored_bots_config[k].name
FirstOccurrences ==
    LET first == SelectSeq([k \in 1..Len(monitored_bots_config) |-> k],
                           LAMBDA k : \A j \in 1..(k - 1) :
                                          ConfigNameAt(j) # ConfigNameAt(k))
    IN [k \in 1..Len(first) |-> ConfigNameAt(first[k])]

NoNameMatches(r) ==
    \A k \in 1..Len(monitored_bots_config) : Lower(ConfigNameAt(k)) # Lower(r)

\* C7: the step that answers a /monitor request from the authorized channel
\* for a name matching no configured name sends exactly one message, the
\* lookup-miss message, which lists the configured names in insertion order
\* and carries no report, and it changes neither the registry nor any
\* session's state.
C7_LookupMiss ==
    [][(/\ interaction.state = "deferred"
        /\ interaction.kind = "monitor"
        /\ Authorized
        /\ NoNameMatches(interaction.bot_name)
        /\ interaction'.state = "answered")
       => (/\ Len(interaction'.followups) = 1
           /\ interaction'.followups[1].type = "notfound"
           /\ interaction'.followups[1].bot_name = interaction.bot_name
           /\ interaction'.followups[1].names = FirstOccurrences
           /\ interaction'.followups[1].lines = <<>>
           /\ UNCHANGED <<monitored_bot_clients, monitored_bots_config,
                          clients, phase, starts, pc>>)]_vars

\* A lookup miss answered with two names listed.
C7_Witness ==
    /\ Answered("monitor") /\ Authorized
    /\ NoNameMatches(interaction.bot_name)
    /\ Followup.type = "notfound"
    /\ Len(Followup.names) = 2

\* ---- C9 ----------------------------------------------------------------
\* C9: the full report sent for a /monitor_all from the authorized channel
\* over a registry of k clients is the header followed by exactly k
\* sections in registry order, each being the single report of its client
\* closed by a blank line; for k = 0 it is the header alone.
C9_FullReportIsSections ==
    (Answered("monitor_all") /\ Authorized) =>
        LET r == Followup.lines
            k == Len(monitored_bot_clients)
        IN /\ Followup.type = "report"
           /\ SubSeq(r, 1, Len(HeaderLines)) = HeaderLines
           /\ Len(TitlePositions(r)) = k
           /\ k = 0 => r = HeaderLines
           /\ k > 0 => TitlePositions(r)[1] = Len(HeaderLines) + 1
           /\ \A j \in 1..k :
                 /\ Section(r, j) = GenerateSingleBotReport(RegistryClient(j))
                 /\ r[SectionEnd(r, j)] = BlankLine

\* A full report over two clients whose sections differ.
C9_Witness ==
    /\ Answered("monitor_all") /\ Authorized
    /\ Len(monitored_bot_clients) = 2
    /\ RegistryClient(1).is_ready
    /\ ~RegistryClient(2).is_ready
    /\ Len(TitlePositions(Followup.lines)) = 2

\* ---- C10 ---------------------------------------------------------------
\* C10: the single report of a client that is not ready is its title, which
\* holds the account name, and the offline marker, and has no server-count,
\* latency, activity, user-status or server-list line, whatever the client's
\* identity, guilds and latency are.
C10_NotReadyReadsOffline ==
    \A c \in DOMAIN clients :
        ~clients[c].is_ready =>
            LET r == GenerateSingleBotReport(clients[c])
            IN /\ r[1] = Line("Title", clients[c].bot_name)
               /\ \E k \in 1..Len(r) : r[k] = OfflineLine
               /\ \A k \in 1..Len(r) : Tag(r[k]) \notin StatsTags /\ r[k] # OnlineLine

\* The single report sent for a client that has its identity, guilds and
\* latency but is not ready yet.
C10_Witness ==
    /\ Answered("monitor") /\ Authorized
    /\ Followup.type = "report"
    /\ \E c \in DOMAIN clients :
          /\ ~clients[c].is_ready
          /\ clients[c].user # NoUser
          /\ clients[c].guilds # <<>>
          /\ clients[c].latency \in LatencySamples
          /\ Followup.lines = <<Line("Title", clients[c].bot_name), OfflineLine>>

\* ---- C11 ---------------------------------------------------------------
\* The stats sections of a report r: those whose second line is the online
\* line.
NotInAnyServers == <<"Not in any servers.">>

SectionCountMatchesList(sec) ==
    LET count == sec[3][2]
        shown == sec[7][2]
    IN /\ Tag(sec[3]) = "Servers"
       /\ Tag(sec[7]) = "ServersList"
       /\ (shown = NotInAnyServers) <=> (count = 0)
       /\ count # 0 => Len(shown) = count

\* C11: in every single report and in every section of every full report
\* sent by the slash front end, a section that shows the stats shows a
\* server count equal to the number of names in its server list, and shows
\* the "not in any servers" text exactly when that count is 0, whatever
\* guild changes happened before the report was rendered.
C11_GuildCountMatchesList ==
    /\ (Answered("monitor") /\ Authorized /\ Followup.type = "report"
          /\ Len(Followup.lines) > 2) =>
          SectionCountMatchesList(Followup.lines)
    /\ (Answered("monitor_all") /\ Authorized) =>
          \A k \in 1..Len(TitlePositions(Followup.lines)) :
              Len(Section(Followup.lines, k)) > 2 =>
                  SectionCountMatchesList(Section(Followup.lines, k))
    /\ \A c \in DOMAIN clients :
          clients[c].is_ready =>
              SectionCountMatchesList(GenerateSingleBotReport(clients[c]))

\* A single report of a ready session that left all its guilds: count 0 and
\* the "not in any servers" text, next to a session with two guilds.
C11_Witness ==
    /\ Answered("monitor") /\ Authorized /\ Followup.type = "report"
    /\ Len(Followup.lines) = 7
    /\ Followup.lines[3] = Line("Servers", 0)
    /\ Followup.lines[7] = Line("ServersList", NotInAnyServers)
    /\ \E c \in DOMAIN clients : clients[c].is_ready /\ Len(clients[c].guilds) = 2

\* ---- C12 ---------------------------------------------------------------
\* MONITOR_CHANNEL_ID is usable when it is set and is a non-empty string of
\* decimal digits.
ChannelConfigured ==
    /\ envChannel.set
    /\ Len(envChannel.val) > 0
    /\ \A k \in 1..Len(envChannel.val) :
          envChannel.val[k] \in {"0", "1", "2", "3", "4", "5", "6", "7", "8", "9"}

\* C12: when MONITOR_CHANNEL_ID is absent or non-numeric the program never
\* gets past the constructor: no configuration is loaded, no session client
\* is constructed or started, and no request is handled.
C12_NoPartialStartup ==
    /\ ~ChannelConfigured =>
          /\ pc \in {"new", "crashed"}
          /\ monitored_bots_config = <<>>
          /\ clients = <<>> /\ phase = <<>> /\ starts = <<>>
          /\ monitored_bot_clients = <<>>
          /\ interaction = NoInteraction
    /\ pc = "crashed" => ~ChannelConfigured
    /\ (ChannelConfigured /\ pc # "new") => pc # "crashed"

\* Startup has failed on a non-numeric channel id although sessions are
\* configured in the environment.
C12_Witness ==
    /\ pc = "crashed"
    /\ envChannel.set
    /\ \A k \in DOMAIN env : env[k].token.set /\ env[k].name.set

\* ---- C13 ---------------------------------------------------------------
\* C13: every step of request handling (the arrival of a request, its
\* answer through either front end, authorized or not, hit or miss, and its
\* delivery) leaves the registry, the configuration and every attribute of
\* every session client unchanged.
C13_ReportsHaveNoSideEffects ==
    [][interaction' # interaction =>
          UNCHANGED <<monitored_bot_clients, monitored_bots_config, clients,
                      phase, starts, target_channel_id>>]_vars

\* A report has just been sent for a registry of two sessions, one ready.
C13_Witness ==
    /\ interaction.state \in {"answered", "command"}
    /\ Authorized
    /\ Len(interaction.followups) = 1
    /\ Followup.type = "report"
    /\ Len(monitored_bot_clients) = 2
    /\ \E c \in DOMAIN clients : clients[c].is_ready

\* ---- C14 ---------------------------------------------------------------
\* What the other front end sends, in the current state, for the full-report
\* request that has just been answered.
PrefixAnswer == OnMessageSends(interaction.channel_id, TRUE, FALSE)
SlashAnswer == <<MonitorAllFollowup>>
WithoutServersList(lines) == SelectSeq(lines, LAMBDA l : Tag(l) # "ServersList")

\* C14 as claimed: a full-report request gets the same response from the
\* slash front end and from the prefix front end, whatever its channel.
C14_FrontEndsInterchangeable ==
    /\ Answered("monitor_all") => interaction.followups = PrefixAnswer
    /\ interaction.state = "command" => interaction.followups = SlashAnswer

\* C14 as the code has it: from the authorized channel both front ends send
\* one report with the same header, the same sections in the same order and
\* the same status, servers, latency, activity and user-status lines; the
\* slash report has in addition one servers-list line in each section of a
\* ready session.  From any other channel the slash front end sends a
\* redirect and the prefix front end sends nothing.
C14_FrontEndsAgreeUpToServersList ==
    /\ (Answered("monitor_all") /\ Authorized) =>
          /\ Len(PrefixAnswer) = 1
          /\ PrefixAnswer[1].type = "report"
          /\ WithoutServersList(Followup.lines) = PrefixAnswer[1].lines
          /\ Len(Followup.lines) = Len(PrefixAnswer[1].lines)
                + Cardinality({c \in DOMAIN monitored_bot_clients :
                                  RegistryClient(c).is_ready})
    /\ (interaction.state = "command" /\ Authorized) =>
          /\ Len(interaction.followups) = 1
          /\ Followup.type = "report"
          /\ SlashAnswer[1].type = "report"
          /\ WithoutServersList(SlashAnswer[1].lines) = Followup.lines
    /\ (Answered("monitor_all") /\ ~Authorized) =>
          IsRedirect(Followup) /\ PrefixAnswer = <<>>
    /\ (interaction.state = "command" /\ ~Authorized) =>
          interaction.followups = <<>> /\ IsRedirect(SlashAnswer[1])

\* The prefix front end has answered a "!monitor" from the authorized
\* channel while one of two registered sessions is ready and in two guilds.
C14_Witness ==
    /\ interaction.state = "command" /\ Authorized
    /\ Len(monitored_bot_clients) = 2
    /\ \E c \in DOMAIN monitored_bot_clients :
          RegistryClient(c).is_ready /\ Len(RegistryClient(c).guilds) = 2
    /\ \E c \in DOMAIN monitored_bot_clients : ~RegistryClient(c).is_ready
    /\ SlashAnswer[1].lines # Followup.lines

\* ---- C15 ---------------------------------------------------------------
\* C15 as claimed: once setup_hook has returned, the registry holds exactly
\* one client per loaded configuration entry, in configuration order, and
\* every client that was started is the value of some registry entry; this
\* for every configuration list, equal names included.
C15_RegistryMirrorsConfig ==
    pc = "running" =>
        /\ Len(monitored_bot_clients) = Len(monitored_bots_config)
        /\ \A k \in 1..Len(monitored_bot_clients) :
              /\ monitored_bot_clients[k][1] = ConfigNameAt(k)
              /\ RegistryClient(k).bot_name = ConfigNameAt(k)
              /\ RegistryClient(k).bot_token = monitored_bots_config[k].token
        /\ \A c \in Started :
              \E k \in 1..Len(monitored_bot_clients) :
                  monitored_bot_clients[k][2] = c

\* ---- C16 ---------------------------------------------------------------
\* The sessions constructed so far are those of the first configuration
\* entries, in order, and the loop counter is one start ahead or level.
StartedInConfigOrder ==
    /\ Len(clients) <= Len(monitored_bots_config)
    /\ \A k \in DOMAIN clients :
          /\ clients[k].bot_name = ConfigNameAt(k)
          /\ clients[k].bot_token = monitored_bots_config[k].token
    /\ pc = "sleep" => Len(clients) = nextBot
    /\ pc \in {"start", "running"} => Len(clients) = nextBot - 1

\* The next step of the loop never waits for a session.
LoopNeverWaits ==
    /\ pc = "sleep" => ENABLED SleepDone
    /\ (pc = "start" /\ nextBot <= Len(monitored_bots_config)) => ENABLED StartNext
    /\ (pc = "start" /\ nextBot > Len(monitored_bots_config)) => ENABLED SetupDone

\* A step starts at most one session and then enters the pacing delay; the
\* delay ends in a step that starts nothing.
PacedStep ==
    /\ Len(clients') # Len(clients) =>
          /\ pc = "start" /\ pc' = "sleep"
          /\ Len(clients') = Len(clients) + 1
          /\ Len(clients') = nextBot
          /\ SubSeq(clients', 1, Len(clients)) = clients
          /\ phase'[nextBot] = "created"
    /\ (pc = "sleep" /\ pc' # "sleep") =>
          /\ pc' = "start"
          /\ nextBot' = nextBot + 1
          /\ Len(clients') = Len(clients)

\* C16: setup_hook starts the sessions strictly in configuration order, with
\* one pacing delay after each start; the delay and the next start are
\* enabled whatever the sessions started before have done; and when the
\* main flow is scheduled fairly, every configured session is eventually
\* started and setup_hook returns.
C16_PacedOrderedStartup ==
    /\ [](StartedInConfigOrder /\ LoopNeverWaits)
    /\ [][PacedStep]_vars
    /\ (pc = "start") ~>
          (pc = "running" /\ Len(clients) = Len(monitored_bots_config))

\* The second session has been started while the first has neither logged
\* in nor failed.
C16_Witness ==
    /\ pc = "sleep"
    /\ Len(clients) = 2
    /\ nextBot = 2
    /\ phase[1] = "created"

\* ---- C17 ---------------------------------------------------------------
\* The step changes something of session c.
Touches(c) == clients'[c] # clients[c] \/ phase'[c] # phase[c]

\* The step is a latency event of session c: its latency changes while its
\* connection stays in the same phase.
LatencyEvent(c) ==
    clients'[c].latency # clients[c].latency /\ phase'[c] = phase[c]

PresenceEvent(c) ==
    \/ clients'[c].activity # clients[c].activity
    \/ clients'[c].status # clients[c].status

\* C17: a step that changes a field of session A changes no field of any
\* other session; a latency event of A changes A's latency alone; a step
\* that changes A's activity or status changes none of A's is_ready, user,
\* guilds and latency; no event changes a client's name or token.
C17_EventsRespectOwnership ==
    [][\A c \in DOMAIN clients :
          Touches(c) =>
              /\ \A d \in DOMAIN clients \ {c} : ~Touches(d)
              /\ clients'[c].bot_name = clients[c].bot_name
              /\ clients'[c].bot_token = clients[c].bot_token
              /\ LatencyEvent(c) =>
                    clients' = [clients EXCEPT ![c].latency = clients'[c].latency]
              /\ PresenceEvent(c) =>
                    /\ clients'[c].is_ready = clients[c].is_ready
                    /\ clients'[c].user = clients[c].user
                    /\ clients'[c].guilds = clients[c].guilds
                    /\ clients'[c].latency = clients[c].latency]_vars

\* Session 1 has had a latency event and session 2, connected as well, has
\* had none; their guild lists differ.
C17_Witness ==
    /\ Len(clients) = 2
    /\ phase[1] = "dispatched" /\ phase[2] = "dispatched"
    /\ clients[1].latency \in LatencySamples
    /\ clients[2].latency = LatInf
    /\ clients[1].guilds # clients[2].guilds

\* ---- C18 ---------------------------------------------------------------
\* C18: a client whose is_ready is set has its user set, so for every
\* client the report's guard (is_ready and user) has the value of is_ready
\* alone; and is_ready is set only by a step that finds user set.
C18_ReadyHasIdentity ==
    /\ [](\A c \in DOMAIN clients :
            /\ clients[c].is_ready => clients[c].user # NoUser
            /\ ShowsStats(clients[c]) = clients[c].is_ready)
    /\ [][\A c \in DOMAIN clients :
            (~clients[c].is_ready /\ clients'[c].is_ready) =>
                (clients[c].user # NoUser /\ clients'[c].user = clients[c].user)]_vars

\* A ready session next to one that has logged in, so has a user, and is
\* not ready.
C18_Witness ==
    /\ \E c \in DOMAIN clients : clients[c].is_ready /\ clients[c].user # NoUser
    /\ \E c \in DOMAIN clients : ~clients[c].is_ready /\ clients[c].user # NoUser

\* ---- C19 ---------------------------------------------------------------
\* The step sends a message.
Sends == interaction.followups = <<>> /\ interaction'.followups # <<>>

\* The report the front end of the request renders from registry d and
\* clients cl taken at one instant.
RenderedAt(d, cl, request, lines) ==
    CASE request.kind = "monitor_all" -> lines = GenerateFullReport(d, cl)
      [] request.kind = "message" -> lines = MonitoringReport(d, cl)
      [] request.kind = "monitor" ->
            \E k \in 1..Len(d) :
                /\ Lower(d[k][1]) = Lower(request.bot_name)
                /\ lines = GenerateSingleBotReport(cl[d[k][2]])
      [] OTHER -> FALSE

\* C19: the step in which a report is rendered and sent contains no update
\* of any session, and the report it sends is the render of the registry and
\* of the clients as they are both before and after that step: all field
\* reads of all sections see one instant.
C19_ReportsAreAtomic ==
    [][Sends =>
          /\ clients' = clients
          /\ phase' = phase
          /\ monitored_bot_clients' = monitored_bot_clients
          /\ Len(interaction'.followups) = 1
          /\ interaction'.followups[1].type = "report" =>
                /\ RenderedAt(monitored_bot_clients, clients, interaction',
                              interaction'.followups[1].lines)
                /\ RenderedAt(monitored_bot_clients', clients', interaction',
                              interaction'.followups[1].lines)]_vars

\* A full report has been sent while both sessions are connected, so that
\* latency and guild events of either can occur before and after it, and
\* the two have been through different events.
C19_Witness ==
    /\ Answered("monitor_all") /\ Authorized
    /\ Len(clients) = 2
    /\ phase[1] = "dispatched" /\ phase[2] = "dispatched"
    /\ clients[1].guilds # clients[2].guilds
    /\ clients[1].latency # clients[2].latency
    /\ Followup.lines = GenerateFullReport(monitored_bot_clients, clients)

\* ---- C20 ---------------------------------------------------------------
\* C20 as claimed: a request is handled only when setup_hook has returned
\* with every configured session constructed and started, so that a full
\* report has exactly one section per configured account, in configuration
\* order, and a lookup miss lists all configured names.
C20_RequestsSeeWholeRegistry ==
    /\ interaction.state # "none" =>
          /\ pc = "running"
          /\ nextBot > Len(monitored_bots_config)
          /\ Len(clients) = Len(monitored_bots_config)
    /\ (Answered("monitor_all") /\ Authorized) =>
          LET tp == TitlePositions(Followup.lines)
          IN /\ Len(tp) = Len(monitored_bots_config)
             /\ \A k \in 1..Len(tp) :
                   Followup.lines[tp[k]] = Line("Title", ConfigNameAt(k))
    /\ (Answered("monitor") /\ Authorized /\ Followup.type = "notfound") =>
          Followup.names =
              [k \in 1..Len(monitored_bots_config) |-> ConfigNameAt(k)]

\* ---- C21 ---------------------------------------------------------------
IsSlash == interaction.kind \in {"monitor", "monitor_all"}

\* The request is acknowledged (the defer has returned) and nothing has
\* been sent for it.
Acknowledged == IsSlash /\ interaction.state = "deferred"

\* Exactly one follow-up has been sent, and it is the redirect, a report or
\* the lookup-miss message.
OneFollowup ==
    /\ IsSlash /\ interaction.state = "answered"
    /\ Len(interaction.followups) = 1
    /\ Followup.type \in {"redirect", "report", "notfound"}
    /\ Followup.type = "redirect" <=> ~Authorized
    /\ Followup.type = "notfound" => interaction.kind = "monitor"

\* C21: a slash request is first acknowledged, with nothing sent yet; the
\* only step its handler takes from there sends exactly one follow-up, which
\* is the redirect, the report or the lookup-miss message; the handler ends
\* only after that follow-up; and, the handler being scheduled, every
\* acknowledged request does get its follow-up.
C21_AcknowledgedThenOneFollowup ==
    /\ [](IsSlash => (Acknowledged /\ interaction.followups = <<>>) \/ OneFollowup)
    /\ [][IsSlash' /\ interaction' # interaction =>
            \/ interaction.state = "none" /\ Acknowledged' /\ interaction'.followups = <<>>
            \/ /\ Acknowledged /\ OneFollowup'
               /\ interaction'.kind = interaction.kind
               /\ interaction'.channel_id = interaction.channel_id
               /\ interaction'.bot_name = interaction.bot_name]_vars
    /\ [][IsSlash /\ ~IsSlash' => OneFollowup /\ interaction' = NoInteraction]_vars
    /\ Acknowledged ~> OneFollowup

\* A /monitor from another channel has been acknowledged and answered with
\* the redirect alone, although the name it asks for is registered.
C21_Witness ==
    /\ OneFollowup
    /\ interaction.kind = "monitor"
    /\ ~Authorized
    /\ Followup.type = "redirect"
    /\ FindClient(monitored_bot_clients, interaction.bot_name) # 0

\* ---- C8 ----------------------------------------------------------------
\* An entry is present when both its token and its name are set and not
\* empty.  The first gap is the first index whose entry is not present.
EntryPresent(k) ==
    /\ k \in DOMAIN env
    /\ env[k].token.set /\ Len(env[k].token.val) > 0
    /\ env[k].name.set /\ Len(env[k].name.val) > 0

FirstGap ==
    CHOOSE g \in 1..(Len(env) + 1) :
        /\ ~EntryPresent(g)
        /\ \A k \in 1..(g - 1) : EntryPresent(k)

\* C8: config loading stops at the first gap: while it scans, the loaded
\* configuration is entries 1..i-1 with i at most the first gap, and once it
\* has stopped the configured sessions are exactly the entries before the
\* first gap, in order, whatever the entries at higher indices are.
C8_StopAtFirstGap ==
    /\ pc = "load" =>
          /\ i <= FirstGap
          /\ Len(monitored_bots_config) = i - 1
    /\ pc = "start" =>
          /\ i = FirstGap
          /\ Len(monitored_bots_config) = FirstGap - 1
    /\ \A k \in 1..Len(monitored_bots_config) :
          /\ monitored_bots_config[k].name = env[k].name.val
          /\ monitored_bots_config[k].token = env[k].token.val

\* Entries 1..3 present, 4 absent, 5 present: exactly 3 sessions.
C8_Witness ==
    /\ pc = "start"
    /\ Len(env) >= 5
    /\ \A k \in 1..3 : EntryPresent(k)
    /\ ~env[4].token.set
    /\ EntryPresent(5)
    /\ Len(monitored_bots_config) = 3

====
